---- MODULE Spec2Model ----
(***************************************************************************)
(* Model of the Instruments supervisor and of its CommandHandler           *)
(* (src/unnamed/part_000, src/lib/helpers.js): process lifecycle, flakey   *)
(* retries, socket command channel.  Every handler of the source is an     *)
(* operator on a record w holding all fields; every action applies one     *)
(* handler to the state.  Spec explores one start call together with the   *)
(* command channel, LifecycleSpec repeated start calls without commands.   *)
(***************************************************************************)
EXTENDS Integers, Sequences, FiniteSets, TLC

\* ---- bounds of the exploration ----
MaxStarts == 1      \* start calls when the command channel is explored too
MaxRestarts == 2    \* start calls when only the lifecycle is explored
MaxRetries == 2     \* largest configured flakeyRetries
MaxShutdowns == 1   \* shutdown calls
MaxReshutdowns == 2 \* shutdown calls when one start call is explored
MaxCmds == 2        \* sendCommand calls
MaxConns == 3       \* connections the worker opens
MaxCheckIns == 1    \* connections when only the lifecycle is explored
MaxBuf == 4         \* tokens buffered from the socket
MaxChunk == 4       \* characters of a chunk given to the output filter

\* ---- program constants ----
ERR_NEVER_CHECKED_IN == "Instruments never checked in"
ERR_CRASHED_ON_STARTUP == "Instruments crashed on startup"
UNKNOWN_ERROR == "status 13: Error parsing socket data from instruments"
NoErr == "none"
ExitCodes == {0, 1}

VARIABLES
  \* configuration (constructor options)
  flakeyRetries, ignoreStartupExit,
  \* Instruments fields
  launchTries, neverConnected, launchHandlerCalledBack, hasConnected,
  didLaunch, instrumentsExited, proc, shutdownCb, launchHandlerCb,
  exitHandler, socketConnectTimeout, termTimer, commandHandler,
  currentSocket, socketServer, bufferedData, traceDir,
  \* CommandHandler fields (the object created in the constructor)
  curCommand, commandQueue, onReceiveCommand,
  \* environment: child processes, sockets, timers, pending async steps
  child, conn, startupArmed, termArmed, pendingPath, pendingListen,
  listening, uncaught,
  \* what the caller and the peer have observed
  nStarts, nCmds, readyCalls, downCalls, exitCalls, fired, written,
  discarded, startupFired, shutdownTarget,
  \* a chunk of child output and what clearBufferChars makes of it
  rawOutput, clearedOutput

vars == <<flakeyRetries, ignoreStartupExit, launchTries, neverConnected,
  launchHandlerCalledBack, hasConnected, didLaunch, instrumentsExited, proc,
  shutdownCb, launchHandlerCb, exitHandler, socketConnectTimeout, termTimer,
  commandHandler, currentSocket, socketServer, bufferedData, traceDir,
  curCommand,
  commandQueue, onReceiveCommand, child, conn, startupArmed, termArmed,
  pendingPath, pendingListen, listening, uncaught, nStarts, nCmds,
  readyCalls, downCalls, exitCalls, fired, written, discarded, startupFired,
  shutdownTarget, rawOutput, clearedOutput>>

\* the whole state as one record, so that handlers compose as functions
World ==
  [flakeyRetries |-> flakeyRetries, ignoreStartupExit |-> ignoreStartupExit,
   launchTries |-> launchTries, neverConnected |-> neverConnected,
   launchHandlerCalledBack |-> launchHandlerCalledBack,
   hasConnected |-> hasConnected, didLaunch |-> didLaunch,
   instrumentsExited |-> instrumentsExited, proc |-> proc,
   shutdownCb |-> shutdownCb, launchHandlerCb |-> launchHandlerCb,
   exitHandler |-> exitHandler, socketConnectTimeout |-> socketConnectTimeout,
   termTimer |-> termTimer, commandHandler |-> commandHandler,
   currentSocket |-> currentSocket, socketServer |-> socketServer,
   bufferedData |-> bufferedData, traceDir |-> traceDir,
   curCommand |-> curCommand,
   commandQueue |-> commandQueue, onReceiveCommand |-> onReceiveCommand,
   child |-> child, conn |-> conn, startupArmed |-> startupArmed,
   termArmed |-> termArmed, pendingPath |-> pendingPath,
   pendingListen |-> pendingListen, listening |-> listening,
   uncaught |-> uncaught, nStarts |-> nStarts, nCmds |-> nCmds,
   readyCalls |-> readyCalls, downCalls |-> downCalls,
   exitCalls |-> exitCalls, fired |-> fired, written |-> written,
   discarded |-> discarded, startupFired |-> startupFired,
   shutdownTarget |-> shutdownTarget]

Apply(w) ==
  /\ flakeyRetries' = w.flakeyRetries
  /\ ignoreStartupExit' = w.ignoreStartupExit
  /\ launchTries' = w.launchTries
  /\ neverConnected' = w.neverConnected
  /\ launchHandlerCalledBack' = w.launchHandlerCalledBack
  /\ hasConnected' = w.hasConnected
  /\ didLaunch' = w.didLaunch
  /\ instrumentsExited' = w.instrumentsExited
  /\ proc' = w.proc
  /\ shutdownCb' = w.shutdownCb
  /\ launchHandlerCb' = w.launchHandlerCb
  /\ exitHandler' = w.exitHandler
  /\ socketConnectTimeout' = w.socketConnectTimeout
  /\ termTimer' = w.termTimer
  /\ commandHandler' = w.commandHandler
  /\ currentSocket' = w.currentSocket
  /\ socketServer' = w.socketServer
  /\ bufferedData' = w.bufferedData
  /\ traceDir' = w.traceDir
  /\ curCommand' = w.curCommand
  /\ commandQueue' = w.commandQueue
  /\ onReceiveCommand' = w.onReceiveCommand
  /\ child' = w.child
  /\ conn' = w.conn
  /\ startupArmed' = w.startupArmed
  /\ termArmed' = w.termArmed
  /\ pendingPath' = w.pendingPath
  /\ pendingListen' = w.pendingListen
  /\ listening' = w.listening
  /\ uncaught' = w.uncaught
  /\ nStarts' = w.nStarts
  /\ nCmds' = w.nCmds
  /\ readyCalls' = w.readyCalls
  /\ downCalls' = w.downCalls
  /\ exitCalls' = w.exitCalls
  /\ fired' = w.fired
  /\ written' = w.written
  /\ discarded' = w.discarded
  /\ startupFired' = w.startupFired
  /\ shutdownTarget' = w.shutdownTarget
  /\ UNCHANGED <<rawOutput, clearedOutput>>

\* a child process is alive while it runs, whatever signal it has received
Alive == {"running", "term", "kill"}

\* new Instruments(opts): 0 stands for null, ids count from 1
\* the session after construction
InitSession ==
  /\ flakeyRetries \in 0..MaxRetries
  /\ ignoreStartupExit \in BOOLEAN
  /\ launchTries = 0
  /\ neverConnected = FALSE
  /\ launchHandlerCalledBack = FALSE
  /\ hasConnected = FALSE
  /\ didLaunch = FALSE
  /\ instrumentsExited = FALSE
  /\ proc = 0
  /\ shutdownCb = 0
  /\ launchHandlerCb = 0
  /\ exitHandler = 0
  /\ socketConnectTimeout = 0
  /\ termTimer = 0
  /\ commandHandler = TRUE
  /\ currentSocket = 0
  /\ socketServer = 0
  /\ bufferedData = <<>>
  /\ traceDir = <<>>
  /\ curCommand = 0
  /\ commandQueue = <<>>
  /\ onReceiveCommand = 0
  /\ child = <<>>
  /\ conn = <<>>
  /\ startupArmed = {}
  /\ termArmed = {}
  /\ pendingPath = {}
  /\ pendingListen = {}
  /\ listening = {}
  /\ uncaught = FALSE
  /\ nStarts = 0
  /\ nCmds = 0
  /\ readyCalls = <<>>
  /\ downCalls = <<>>
  /\ exitCalls = <<>>
  /\ fired = <<>>
  /\ written = <<>>
  /\ discarded = {}
  /\ startupFired = {}
  /\ shutdownTarget = <<>>

Init ==
  /\ InitSession
  /\ rawOutput = <<>>
  /\ clearedOutput = [done |-> FALSE, text |-> <<>>]

\* ---- process management ----

\* helpers.killProc: killall -9 "instruments" kills every running instruments
killall(w) ==
  [w EXCEPT !.child = [i \in DOMAIN @ |-> IF @[i] \in Alive THEN "kill" ELSE @[i]]]

\* Instruments.prototype.killProc is called by the source but defined outside
\* it; after the specification ("forcibly kill any remaining child") it sends
\* the kill signal to the child the session holds, if any
killProc(w) ==
  IF w.proc # 0 /\ w.child[w.proc] \in Alive
    THEN [w EXCEPT !.child[w.proc] = "kill"]
    ELSE w

\* termProc for the k-th shutdown call: arm the termination timer, send SIGTERM
termProc(w, k) ==
  IF w.proc # 0
    THEN [w EXCEPT !.termTimer = k,
                   !.termArmed = @ \cup {k},
                   !.child[w.proc] = IF @ = "running" THEN "term" ELSE @]
    ELSE w

\* clearTimeout(this.socketConnectTimeout)
clearStartupTimer(w) ==
  [w EXCEPT !.startupArmed = @ \ {w.socketConnectTimeout}]

\* the caller's launch callback, recorded with the error it receives
launchHandlerCbCall(w, err) ==
  [w EXCEPT !.readyCalls = Append(@, [cb |-> w.launchHandlerCb, err |-> err])]

RECURSIVE launch(_, _), launchHandler(_, _, _)

\* launch(cb): o is what the environment does to this attempt: "tmpdir" (the
\* scratch directory cannot be prepared), "enoent" (spawn will fail) or
\* "spawn".  Both callers pass cb = function (err) { launchHandler(err) }
launch(w, o) ==
  IF o = "tmpdir"
    THEN launchHandler(w, "tmpdir", o)
    ELSE LET id == Len(w.child) + 1 IN
         [w EXCEPT !.instrumentsExited = FALSE,
                   !.child = Append(@, IF o = "enoent" THEN "enoent" ELSE "running"),
                   !.proc = id,
                   !.socketConnectTimeout = id,
                   !.startupArmed = @ \cup {id}]

\* launchHandler retrying while launchTries <= flakeyRetries
launchHandler_oneRetryMore(w, err, o) ==
  IF ~w.launchHandlerCalledBack
    THEN LET w1 == clearStartupTimer(w) IN
         IF err = NoErr
           THEN launchHandlerCbCall(
                  [w1 EXCEPT !.didLaunch = TRUE, !.neverConnected = FALSE,
                             !.launchHandlerCalledBack = TRUE], err)
           ELSE IF /\ w1.launchTries <= w1.flakeyRetries
                   /\ err \in {ERR_NEVER_CHECKED_IN, ERR_CRASHED_ON_STARTUP}
                  THEN launch(killProc([w1 EXCEPT !.launchTries = @ + 1]), o)
                  ELSE launchHandlerCbCall(
                         killProc([w1 EXCEPT !.launchHandlerCalledBack = TRUE]), err)
    ELSE w

\* launchHandler that also reports the error of an attempt it retries
launchHandler_reportsRetry(w, err, o) ==
  IF ~w.launchHandlerCalledBack
    THEN LET w1 == clearStartupTimer(w) IN
         IF err = NoErr
           THEN launchHandlerCbCall(
                  [w1 EXCEPT !.didLaunch = TRUE, !.neverConnected = FALSE,
                             !.launchHandlerCalledBack = TRUE], err)
           ELSE IF /\ w1.launchTries < w1.flakeyRetries
                   /\ err \in {ERR_NEVER_CHECKED_IN, ERR_CRASHED_ON_STARTUP}
                  THEN launch(launchHandlerCbCall(
                                killProc([w1 EXCEPT !.launchTries = @ + 1]), err), o)
                  ELSE launchHandlerCbCall(
                         killProc([w1 EXCEPT !.launchHandlerCalledBack = TRUE]), err)
    ELSE w

\* launchHandler(err); o is the environment's outcome of a retry launch
launchHandler(w, err, o) ==
  IF ~w.launchHandlerCalledBack
    THEN LET w1 == clearStartupTimer(w) IN
         IF err = NoErr
           THEN launchHandlerCbCall(
                  [w1 EXCEPT !.didLaunch = TRUE, !.neverConnected = FALSE,
                             !.launchHandlerCalledBack = TRUE], err)
           ELSE IF /\ w1.launchTries < w1.flakeyRetries
                   /\ err \in {ERR_NEVER_CHECKED_IN, ERR_CRASHED_ON_STARTUP}
                  THEN launch(killProc([w1 EXCEPT !.launchTries = @ + 1]), o)
                  ELSE launchHandlerCbCall(
                         killProc([w1 EXCEPT !.launchHandlerCalledBack = TRUE]), err)
    ELSE w

\* start(launchCb, unexpectedExitCb): the call has number s
start(w, s) ==
  IF w.didLaunch
    THEN [w EXCEPT !.nStarts = s,
                   !.readyCalls = Append(@, [cb |-> s, err |-> "already launched"])]
    ELSE [w EXCEPT !.nStarts = s,
                   !.launchHandlerCb = s,
                   !.exitHandler = s,
                   !.pendingPath = @ \cup {s}]

\* initSocketServer(cb): unlinkOk is whether the stale socket file could be
\* removed (or did not exist)
initSocketServer(w, s, unlinkOk, o) ==
  LET w1 == [w EXCEPT !.socketServer = s] IN
  IF ~unlinkOk
    THEN launchHandler(w1, "unlink", o)
    ELSE [w1 EXCEPT !.pendingListen = @ \cup {s}]

\* callback of helpers.getInstrumentsPath inside start
onInstrumentsPath(w, s, found, unlinkOk, o) ==
  LET w1 == [w EXCEPT !.pendingPath = @ \ {s}] IN
  IF ~found
    THEN launchHandler(w1, "path", o)
    ELSE initSocketServer(w1, s, unlinkOk, o)

\* callback of socketServer.listen, then launch
onListening(w, s, o) ==
  launch([w EXCEPT !.pendingListen = @ \ {s}, !.listening = @ \cup {s}], o)

onSocketNeverConnect(w) ==
  killProc([w EXCEPT !.neverConnected = TRUE])

\* ---- command lifecycle (CommandHandler) ----

\* dispatch taking the newest entry of the queue instead of the oldest
dispatch_newestFirst(w, c) ==
  LET n == Len(w.commandQueue)
      cmd == w.commandQueue[n] IN
  [w EXCEPT !.curCommand = cmd,
            !.commandQueue = SubSeq(@, 1, n - 1),
            !.onReceiveCommand = 0,
            !.written = Append(@, cmd),
            !.conn[c] = IF @ = "half" THEN "closing" ELSE @]

\* dispatch that leaves the pending hook in place
dispatch_keepsHook(w, c) ==
  LET cmd == Head(w.commandQueue) IN
  [w EXCEPT !.curCommand = cmd,
            !.commandQueue = Tail(@),
            !.written = Append(@, cmd),
            !.conn[c] = IF @ = "half" THEN "closing" ELSE @]

\* the function handleCommand hands to waitForCommand: take the head of the
\* queue, write it to connection c and end our half of c
dispatch(w, c) ==
  LET cmd == Head(w.commandQueue) IN
  [w EXCEPT !.curCommand = cmd,
            !.commandQueue = Tail(@),
            !.onReceiveCommand = 0,
            !.written = Append(@, cmd),
            !.conn[c] = IF @ = "half" THEN "closing" ELSE @]

\* waitForCommand(cb): the pending hook is kept as the connection it captured
waitForCommand(w, c) ==
  IF Len(w.commandQueue) > 0
    THEN dispatch(w, c)
    ELSE [w EXCEPT !.onReceiveCommand = c]

\* handleCommand without the default for a missing result
handleCommand_noDefault(w, data, c) ==
  LET w1 == IF data.hasResult /\ w.curCommand # 0
              THEN [w EXCEPT !.fired = Append(@, [cmd |-> w.curCommand,
                                                  result |-> data.result]),
                             !.curCommand = 0]
              ELSE w
  IN waitForCommand(w1, c)

\* handleCommand returning as soon as it has logged an unexpected result
handleCommand_stopsOnUnexpected(w, data, c) ==
  LET unexpected == data.hasResult /\ w.curCommand = 0
      missing == ~data.hasResult /\ w.curCommand # 0
      hasResult == data.hasResult \/ missing
      result == IF missing THEN "false" ELSE data.result
      w1 == IF hasResult /\ w.curCommand # 0
              THEN [w EXCEPT !.fired = Append(@, [cmd |-> w.curCommand,
                                                  result |-> result]),
                             !.curCommand = 0]
              ELSE w
  IN IF unexpected THEN w ELSE waitForCommand(w1, c)

\* handleCommand(data, c)
handleCommand(w, data, c) ==
  LET unexpected == data.hasResult /\ w.curCommand = 0
      missing == ~data.hasResult /\ w.curCommand # 0
      hasResult == data.hasResult \/ missing
      result == IF missing THEN "false" ELSE data.result
      w1 == IF hasResult /\ w.curCommand # 0
              THEN [w EXCEPT !.fired = Append(@, [cmd |-> w.curCommand,
                                                  result |-> result]),
                             !.curCommand = 0]
              ELSE w
  IN waitForCommand(w1, c)

\* CommandHandler.prototype.sendCommand(cmd, cb); the command has number cmd
sendCommand(w, cmd) ==
  LET w1 == [w EXCEPT !.commandQueue = Append(@, cmd)] IN
  IF w1.onReceiveCommand # 0
    THEN dispatch(w1, w1.onReceiveCommand)
    ELSE w1

\* CommandHandler.prototype.clean
clean(w) ==
  [w EXCEPT !.discarded = IF w.curCommand # 0 THEN @ \cup {w.curCommand} ELSE @,
            !.curCommand = 0,
            !.onReceiveCommand = 0]

\* Instruments.prototype.sendCommand: this.commandHandler is null after
\* cleanup, the call then throws to its caller and changes nothing else
instrumentsSendCommand(w, cmd) ==
  IF w.commandHandler
    THEN sendCommand([w EXCEPT !.nCmds = cmd], cmd)
    ELSE [w EXCEPT !.nCmds = cmd]

\* ---- socket ingress ----

\* the text a peer sends is a sequence of tokens: braces, an event member,
\* a result member.  A document is well formed when it is one brace pair
\* around members; of repeated members the last one counts
Members == {"ev_cmd", "ev_foo", "res_ok"}
Chunks == { <<"{", "ev_cmd", "}">>, <<"{", "ev_cmd", "res_ok", "}">>,
            <<"{", "ev_foo", "}">>, <<"{", "res_ok", "}">>,
            <<"{", "ev_cmd">>, <<"res_ok", "}">> }

MaxOf(S) == CHOOSE x \in S : \A y \in S : y <= x

\* JSON.parse(data): ok = FALSE stands for the exception
JSONparse(buf) ==
  LET n == Len(buf)
      wellFormed == /\ n >= 2
                    /\ buf[1] = "{"
                    /\ buf[n] = "}"
                    /\ \A i \in 2..(n - 1) : buf[i] \in Members
      evs == {i \in 2..(n - 1) : buf[i] \in {"ev_cmd", "ev_foo"}}
      res == {i \in 2..(n - 1) : buf[i] = "res_ok"}
  IN IF ~wellFormed
       THEN [ok |-> FALSE, hasEvent |-> FALSE, event |-> "",
             hasResult |-> FALSE, result |-> ""]
       ELSE [ok |-> TRUE,
             hasEvent |-> evs # {},
             event |-> IF evs = {} THEN ""
                       ELSE IF buf[MaxOf(evs)] = "ev_cmd" THEN "cmd" ELSE "foo",
             hasResult |-> res # {},
             result |-> IF res = {} THEN "" ELSE "ok"]

\* this.eventRouter
eventRouter == {"cmd"}

\* the 'end' handler handing on no event when parsing throws
endData_dropsMalformed(buf) ==
  LET d == JSONparse(buf) IN
  IF d.ok THEN d
  ELSE [ok |-> TRUE, hasEvent |-> FALSE, event |-> "",
        hasResult |-> FALSE, result |-> ""]

\* the data assembled in the 'end' handler: the parsed document, or the
\* sentinel command result when parsing throws
endData(buf) ==
  LET d == JSONparse(buf) IN
  IF d.ok THEN d
  ELSE [ok |-> TRUE, hasEvent |-> TRUE, event |-> "cmd",
        hasResult |-> TRUE, result |-> UNKNOWN_ERROR]

\* conn.on('end'): the peer closed its half of connection c
onConnEnd(w, c) ==
  LET data == endData(w.bufferedData)
      w1 == [w EXCEPT !.bufferedData = <<>>, !.conn[c] = "half"]
  IN IF ~data.hasEvent THEN w1
     ELSE IF data.event \notin eventRouter THEN w1
     ELSE handleCommand(w1, data, c)

\* the through() stream of the connection: data is appended to the buffer
onConnData(w, chunk) ==
  [w EXCEPT !.bufferedData = @ \o chunk]

\* conn.on('close')
onConnClose(w, c) ==
  [w EXCEPT !.currentSocket = 0, !.conn[c] = "closed"]

\* onSocketConnect(conn) for the new connection c
onSocketConnect(w, c) ==
  LET w0 == [w EXCEPT !.conn = Append(@, "open")]
      w1 == IF ~w0.hasConnected
              THEN launchHandler([w0 EXCEPT !.hasConnected = TRUE], NoErr, "spawn")
              ELSE w0
  IN [w1 EXCEPT !.currentSocket = c]

\* ---- output of the child ----

\* the text of the child's stdout is a sequence of tokens: "*" (the filler
\* character), "nl" (newline), "x" (any other character), "TC" (the words
\* Instruments Trace Complete), "OUT" (the words Output : ), ")" and the
\* path texts "p1", "p2"
StdoutChunks ==
  { <<"*", "*", "nl">>,
    <<"x", "nl">>,
    <<"TC", "x", "OUT", "p1", ")">>,
    <<"*", "nl", "TC", "x", "OUT", "p2", ")", "nl">>,
    <<"TC", "x", "OUT", "p1">> }

RECURSIVE starRun(_, _)
\* the length of the run of filler characters of s that starts at i
starRun(s, i) ==
  IF i <= Len(s) /\ s[i] = "*" THEN 1 + starRun(s, i + 1) ELSE 0

RECURSIVE clearFrom(_, _)
\* output.replace(/(\n|^)\*+\n?/g, "") from position i of s on: a match is
\* a newline, or the very start of the text, then filler characters, then
\* a newline if there is one; the search goes on behind the match
clearFrom(s, i) ==
  IF i > Len(s) THEN <<>>
  ELSE LET lead == IF s[i] = "nl" /\ starRun(s, i + 1) > 0 THEN 1
                   ELSE IF i = 1 /\ starRun(s, 1) > 0 THEN 0
                   ELSE -1
       IN IF lead = -1
            THEN <<s[i]>> \o clearFrom(s, i + 1)
            ELSE LET j == i + lead + starRun(s, i + lead)
                     k == IF j <= Len(s) /\ s[j] = "nl" THEN j + 1 ELSE j
                 IN clearFrom(s, k)

\* helpers.clearBufferChars
clearBufferChars(output) == clearFrom(output, 1)

\* helpers.lookForTraceDir: /Instruments Trace Complete.+Output : ([^\)]+)\)/
\* the leftmost marker, the last "Output : " on its line that is followed by
\* a path and a bracket; <<>> stands for no match
lookForTraceDir(s) ==
  LET n == Len(s)
      IsMatch(i, j, k) ==
        /\ s[i] = "TC"
        /\ j > i + 1
        /\ \A m \in (i + 1)..(j - 1) : s[m] # "nl"
        /\ s[j] = "OUT"
        /\ k > j + 1
        /\ s[k] = ")"
        /\ \A m \in (j + 1)..(k - 1) : s[m] # ")"
      starts == {i \in 1..n : \E j, k \in 1..n : IsMatch(i, j, k)}
  IN IF starts = {} THEN <<>>
     ELSE LET i == CHOOSE x \in starts : \A y \in starts : x <= y
              js == {j \in 1..n : \E k \in 1..n : IsMatch(i, j, k)}
              j == CHOOSE x \in js : \A y \in js : y <= x
              k == CHOOSE x \in 1..n : IsMatch(i, j, x)
          IN SubSeq(s, j + 1, k - 1)

\* outputStreamHandler(instruments)(output)
outputStreamHandler(w, output) ==
  LET dir == lookForTraceDir(clearBufferChars(output)) IN
  IF dir # <<>> THEN [w EXCEPT !.traceDir = dir] ELSE w

\* the characters of a chunk: the filler character, newline, any other one
ChunkChars == {"*", "nl", "x"}

\* the chunks of at most MaxChunk characters
ChunkTexts == UNION {[1..n -> ChunkChars] : n \in 0..MaxChunk}

\* ---- child exit ----

\* cleanupInstruments: this.commandHandler.clean() throws when the handler is
\* already null (a second exit on the session); the exception is uncaught
cleanupInstruments(w) ==
  LET w1 == [w EXCEPT !.proc = 0] IN
  IF ~w1.commandHandler
    THEN [w1 EXCEPT !.uncaught = TRUE]
    ELSE LET w2 == [clean(w1) EXCEPT !.commandHandler = FALSE] IN
         IF w2.currentSocket # 0
           THEN [w2 EXCEPT !.conn[w2.currentSocket] = "closing",
                           !.listening = @ \ {w2.socketServer}]
           ELSE w2

\* onInstrumentsExit(code)
onInstrumentsExit(w, code, o) ==
  LET w1 == [w EXCEPT !.termArmed = @ \ {w.termTimer}] IN
  IF w1.neverConnected
    THEN launchHandler([w1 EXCEPT !.neverConnected = FALSE],
                       ERR_NEVER_CHECKED_IN, o)
  ELSE IF ~w1.didLaunch /\ ~w1.ignoreStartupExit
    THEN launchHandler(w1, ERR_CRASHED_ON_STARTUP, o)
  ELSE LET w2 == cleanupInstruments(w1) IN
       IF w2.uncaught THEN w2
       ELSE IF w2.ignoreStartupExit
         THEN launchHandler(w2, NoErr, o)
       ELSE IF w2.shutdownCb # 0
         THEN [w2 EXCEPT !.downCalls = Append(@, [cb |-> w2.shutdownCb,
                                                  err |-> NoErr]),
                         !.shutdownCb = 0]
       ELSE [w2 EXCEPT !.exitCalls = Append(@, [cb |-> w2.exitHandler,
                                                code |-> code,
                                                traceDir |-> w2.traceDir])]

\* proc.on('exit') registered in launch
procOnExit(w, code, o) ==
  IF ~w.instrumentsExited
    THEN onInstrumentsExit([w EXCEPT !.instrumentsExited = TRUE], code, o)
    ELSE w

\* proc.on('error') registered in launch, for a spawn that fails with ENOENT
procOnError(w, o) ==
  LET w1 == [w EXCEPT !.proc = 0] IN
  IF ~w1.instrumentsExited
    THEN launchHandler([w1 EXCEPT !.instrumentsExited = TRUE], "spawn", o)
    ELSE w1

\* shutdown(cb), the k-th call
\* (shutdownTarget notes the live child the call found, 0 when there is none)
shutdown(w, k) ==
  LET target == IF w.proc # 0 /\ w.child[w.proc] \in Alive THEN w.proc ELSE 0 IN
  [termProc([w EXCEPT !.shutdownTarget = Append(@, target)], k)
     EXCEPT !.shutdownCb = k]

\* the termination timer set in termProc
onTermTimer(w) == killall(w)

\* ---- actions ----
LaunchOutcomes == {"spawn", "enoent", "tmpdir"}

Start ==
  /\ ~uncaught
  /\ nStarts < MaxStarts
  /\ Apply(start(World, nStarts + 1))

\* start calls while only the lifecycle is explored
Restart ==
  /\ ~uncaught
  /\ nStarts < MaxRestarts
  /\ Apply(start(World, nStarts + 1))

PathResolved ==
  /\ ~uncaught
  /\ \E s \in pendingPath, found \in BOOLEAN, unlinkOk \in BOOLEAN,
        o \in LaunchOutcomes :
       Apply(onInstrumentsPath(World, s, found, unlinkOk, o))

ListenDone ==
  /\ ~uncaught
  /\ \E s \in pendingListen, o \in LaunchOutcomes :
       Apply(onListening(World, s, o))

StartupTimerFire ==
  /\ ~uncaught
  /\ \E t \in startupArmed :
       Apply(onSocketNeverConnect(
               [World EXCEPT !.startupArmed = @ \ {t},
                             !.startupFired = @ \cup {t}]))

TermTimerFire ==
  /\ ~uncaught
  /\ \E t \in termArmed :
       Apply(onTermTimer([World EXCEPT !.termArmed = @ \ {t}]))

ExitedAs(st) ==
  IF st = "kill" THEN "exitedKilled"
  ELSE IF st = "term" THEN "exitedTerm" ELSE "exitedSelf"

\* a child exits: because of a signal, or on its own
ChildExit ==
  /\ ~uncaught
  /\ \E c \in DOMAIN child, code \in ExitCodes, o \in LaunchOutcomes :
       /\ child[c] \in Alive
       /\ Apply(procOnExit([World EXCEPT !.child[c] = ExitedAs(@)], code, o))

\* a child that has been sent SIGKILL exits
KilledChildExit ==
  /\ ~uncaught
  /\ \E c \in DOMAIN child, code \in ExitCodes, o \in LaunchOutcomes :
       /\ child[c] = "kill"
       /\ Apply(procOnExit([World EXCEPT !.child[c] = ExitedAs(@)], code, o))

SpawnError ==
  /\ ~uncaught
  /\ \E c \in DOMAIN child, o \in LaunchOutcomes :
       /\ child[c] = "enoent"
       /\ Apply(procOnError([World EXCEPT !.child[c] = "failed"], o))

Shutdown ==
  /\ ~uncaught
  /\ Len(shutdownTarget) < MaxShutdowns
  /\ Apply(shutdown(World, Len(shutdownTarget) + 1))

\* shutdown calls, repeated, while only the lifecycle of one start call is
\* explored
Reshutdown ==
  /\ ~uncaught
  /\ Len(shutdownTarget) < MaxReshutdowns
  /\ Apply(shutdown(World, Len(shutdownTarget) + 1))

\* a child that has been spawned writes to its stdout (data can still arrive
\* after the exit event)
Stdout ==
  /\ ~uncaught
  /\ \E c \in DOMAIN child, chunk \in StdoutChunks :
       /\ child[c] \notin {"enoent", "failed"}
       /\ Apply(outputStreamHandler(World, chunk))

SendCommand ==
  /\ ~uncaught
  /\ nCmds < MaxCmds
  /\ Apply(instrumentsSendCommand(World, nCmds + 1))

\* the worker connects to the socket server
Connect ==
  /\ ~uncaught
  /\ Len(conn) < MaxConns
  /\ listening # {}
  /\ \E c \in DOMAIN child : child[c] \in Alive
  /\ Apply(onSocketConnect(World, Len(conn) + 1))

\* the worker's connections while only the lifecycle is explored
CheckIn ==
  /\ ~uncaught
  /\ Len(conn) < MaxCheckIns
  /\ listening # {}
  /\ \E c \in DOMAIN child : child[c] \in Alive
  /\ Apply(onSocketConnect(World, Len(conn) + 1))

ConnData ==
  /\ ~uncaught
  /\ \E c \in DOMAIN conn, chunk \in Chunks :
       /\ conn[c] = "open"
       /\ Len(bufferedData) + Len(chunk) <= MaxBuf
       /\ Apply(onConnData(World, chunk))

ConnEnd ==
  /\ ~uncaught
  /\ \E c \in DOMAIN conn :
       /\ conn[c] = "open"
       /\ Apply(onConnEnd(World, c))

ConnClose ==
  /\ ~uncaught
  /\ \E c \in DOMAIN conn :
       /\ conn[c] = "closing"
       /\ Apply(onConnClose(World, c))

Next ==
  \/ Start
  \/ PathResolved
  \/ ListenDone
  \/ StartupTimerFire
  \/ TermTimerFire
  \/ ChildExit
  \/ SpawnError
  \/ Shutdown
  \/ SendCommand
  \/ Connect
  \/ ConnData
  \/ ConnEnd
  \/ ConnClose

Spec == Init /\ [][Next]_vars

\* the lifecycle alone, with repeated start calls: no command is sent and the
\* worker sends nothing over its connection
NextLifecycle ==
  \/ Restart
  \/ PathResolved
  \/ ListenDone
  \/ StartupTimerFire
  \/ TermTimerFire
  \/ ChildExit
  \/ SpawnError
  \/ Shutdown
  \/ CheckIn
  \/ ConnClose

LifecycleSpec == Init /\ [][NextLifecycle]_vars

\* timers fire, killed children exit, pending callbacks are delivered; calls
\* of the API, the peer's connections and spontaneous exits are not forced
\* one start call, repeated shutdown calls, the check-in and the output of
\* the child, without the command channel
NextSession ==
  \/ Start
  \/ PathResolved
  \/ ListenDone
  \/ StartupTimerFire
  \/ TermTimerFire
  \/ ChildExit
  \/ SpawnError
  \/ Reshutdown
  \/ Stdout
  \/ CheckIn
  \/ ConnClose

SessionSpec == Init /\ [][NextSession]_vars

\* the output filter on its own: a chunk is drawn, clearBufferChars is
\* applied to it
InitFilter ==
  /\ InitSession
  /\ flakeyRetries = 0
  /\ ~ignoreStartupExit
  /\ rawOutput \in ChunkTexts
  /\ clearedOutput = [done |-> FALSE, text |-> <<>>]

ClearChunk ==
  /\ ~clearedOutput.done
  /\ clearedOutput' = [done |-> TRUE, text |-> clearBufferChars(rawOutput)]
  /\ UNCHANGED <<flakeyRetries, ignoreStartupExit, launchTries, neverConnected,
       launchHandlerCalledBack, hasConnected, didLaunch, instrumentsExited,
       proc, shutdownCb, launchHandlerCb, exitHandler, socketConnectTimeout,
       termTimer, commandHandler, currentSocket, socketServer, bufferedData,
       traceDir, curCommand, commandQueue, onReceiveCommand, child, conn,
       startupArmed, termArmed, pendingPath, pendingListen, listening,
       uncaught, nStarts, nCmds, readyCalls, downCalls, exitCalls, fired,
       written, discarded, startupFired, shutdownTarget, rawOutput>>

NextFilter ==
  \/ ClearChunk

FilterSpec == InitFilter /\ [][NextFilter]_vars

Fairness ==
  /\ WF_vars(PathResolved)
  /\ WF_vars(ListenDone)
  /\ WF_vars(StartupTimerFire)
  /\ WF_vars(TermTimerFire)
  /\ WF_vars(KilledChildExit)
  /\ WF_vars(SpawnError)
  /\ WF_vars(ConnClose)

FairSpec == Spec /\ Fairness

FairLifecycleSpec == LifecycleSpec /\ Fairness

\* ---- properties ----

Exited == {"exitedSelf", "exitedTerm", "exitedKilled"}

\* how often the launch callback of the s-th start call has been invoked
ReadyCount(s) ==
  Cardinality({i \in DOMAIN readyCalls : readyCalls[i].cb = s})

\* how often the callback of the k-th shutdown call has been invoked
DownCount(k) ==
  Cardinality({i \in DOMAIN downCalls : downCalls[i].cb = k})

\* the launch attempts have settled: the launch has been called back and no
\* lookup, listen, spawn or startup timer is pending
Settled ==
  /\ launchHandlerCalledBack
  /\ pendingPath = {}
  /\ pendingListen = {}
  /\ startupArmed = {}
  /\ \A c \in DOMAIN child : child[c] # "enoent"

\* C1: the launch callback of every start call is invoked at most once, and
\* exactly once as soon as the launch attempts have settled
C1_OnReadyExactlyOnce ==
  \A s \in 1..nStarts :
    /\ ReadyCount(s) <= 1
    /\ Settled => ReadyCount(s) = 1

\* the state right after the first start call: nothing else has happened
JustStarted ==
  /\ nStarts = 1
  /\ pendingPath = {1}
  /\ nCmds = 0
  /\ shutdownTarget = <<>>

\* C6: a second start call that follows the first immediately is answered
\* with the 'already launched' error and changes nothing else of the session
C6_SecondStartRejected ==
  [][(JustStarted /\ nStarts' = 2) =>
       /\ readyCalls' = Append(readyCalls, [cb |-> 2, err |-> "already launched"])
       /\ launchHandlerCb' = launchHandlerCb
       /\ exitHandler' = exitHandler
       /\ pendingPath' = pendingPath]_vars

\* C2: command callbacks fire in the order in which the commands were
\* enqueued (commands are numbered in that order), none of them twice
C2_CallbacksInEnqueueOrder ==
  \A i, j \in DOMAIN fired : i < j => fired[i].cmd < fired[j].cmd

\* two commands enqueued before any result arrived have both been answered
C2_Witness ==
  /\ Len(fired) = 2
  /\ nCmds = 2
  /\ fired[1].cmd = 1
  /\ fired[2].cmd = 2

\* the commands written to the peer whose result is still awaited
InFlight ==
  {written[i] : i \in DOMAIN written}
    \ ({fired[i].cmd : i \in DOMAIN fired} \cup discarded)

\* C3: at most one command is in flight, it is the one the handler holds,
\* and commands are written to the peer in enqueue order
C3_OneInFlight ==
  /\ Cardinality(InFlight) <= 1
  /\ InFlight = IF curCommand = 0 THEN {} ELSE {curCommand}
  /\ \A i, j \in DOMAIN written : i < j => written[i] < written[j]

\* a command is in flight while the next one waits in the queue
C3_Witness ==
  /\ curCommand = 1
  /\ commandQueue = <<2>>
  /\ written = <<1>>

\* C4: the callback of a shutdown call that found a live child is invoked
\* exactly once when that child has exited, and never more often
C4_ShutdownCallsBack ==
  \A k \in DOMAIN shutdownTarget :
    /\ DownCount(k) <= 1
    /\ (shutdownTarget[k] # 0 /\ child[shutdownTarget[k]] \in Exited)
         => DownCount(k) = 1

\* C5: shutdown on a session that was never started leads to its callback
\* being invoked with an error (unless the session is started after all)
C5_ShutdownWithoutStart ==
  (nStarts = 0 /\ shutdownCb # 0)
    ~> (nStarts > 0 \/ \E i \in DOMAIN downCalls : downCalls[i].err # NoErr)

\* errors of the environment that end a launch at once
EnvErrors == {"path", "unlink", "tmpdir", "spawn"}

\* one start call, a worker that never connects and never exits by itself,
\* no shutdown and no failure of the environment
NeverConnects ==
  /\ nStarts = 1
  /\ conn = <<>>
  /\ shutdownTarget = <<>>
  /\ \A c \in DOMAIN child : child[c] \in {"running", "kill", "exitedKilled"}
  /\ \A i \in DOMAIN readyCalls : readyCalls[i].err \notin EnvErrors

\* C7: with a worker that never connects there are never more than
\* flakeyRetries + 1 launches, the caller hears nothing before the last one
\* has failed, and then the launches are exactly flakeyRetries + 1, each
\* ended by its startup timer and a kill, and the launch callback has been
\* invoked once, with the never-checked-in error
C7_NeverCheckedIn ==
  NeverConnects =>
    /\ Len(child) <= flakeyRetries + 1
    /\ ~launchHandlerCalledBack => readyCalls = <<>>
    /\ launchHandlerCalledBack =>
         /\ Len(child) = flakeyRetries + 1
         /\ startupFired = 1..(flakeyRetries + 1)
         /\ \A c \in DOMAIN child : child[c] = "exitedKilled"
         /\ readyCalls = <<[cb |-> 1, err |-> ERR_NEVER_CHECKED_IN]>>

\* the third launch of a budget of two has timed out and the caller was told
C7_Witness ==
  /\ NeverConnects
  /\ flakeyRetries = 2
  /\ launchHandlerCalledBack
  /\ Len(child) = 3

\* one start call whose first two workers exited before checking in and
\* whose third worker has checked in
ThirdLaunchCheckedIn ==
  /\ nStarts = 1
  /\ Len(child) = 3
  /\ child[1] \in Exited
  /\ child[2] \in Exited
  /\ hasConnected

\* C8: when the third launch checks in after two workers exited at startup,
\* the launch callback has been invoked exactly once, with success, and the
\* retry count is two
C8_ThirdLaunchSucceeds ==
  ThirdLaunchCheckedIn =>
    /\ readyCalls = <<[cb |-> 1, err |-> NoErr]>>
    /\ launchTries = 2
    /\ flakeyRetries >= 2
    /\ didLaunch

C8_Witness ==
  /\ ThirdLaunchCheckedIn
  /\ child[1] = "exitedSelf"
  /\ child[2] = "exitedSelf"
  /\ child[3] = "running"

\* the step in which the peer ends connection c
EndStep(c) ==
  /\ conn[c] = "open"
  /\ conn'[c] # "open"
  /\ child' = child

\* what handleCommand does after retiring a command: the next pending command
\* goes out on connection c, or the hook waits on c for the next sendCommand
QueueAdvances(c) ==
  IF commandQueue # <<>>
    THEN /\ curCommand' = Head(commandQueue)
         /\ commandQueue' = Tail(commandQueue)
         /\ written' = Append(written, Head(commandQueue))
    ELSE /\ curCommand' = 0
         /\ onReceiveCommand' = c
         /\ written' = written

\* C9: a command-result event without result field that ends a connection
\* while a command is in flight fires that command's callback with false,
\* retires the command and advances the queue
C9_MissingResultIsFalse ==
  [][\A c \in DOMAIN conn :
       (/\ EndStep(c)
        /\ curCommand # 0
        /\ bufferedData = <<"{", "ev_cmd", "}">>)
       => /\ fired' = Append(fired, [cmd |-> curCommand, result |-> "false"])
          /\ QueueAdvances(c)]_vars

\* a command was answered with false and the next one is in flight
C9_Witness ==
  /\ Len(fired) = 1
  /\ fired[1] = [cmd |-> 1, result |-> "false"]
  /\ curCommand = 2

\* the buffered text is no document: not one brace pair around members
Malformed(buf) ==
  \/ Len(buf) < 2
  \/ buf[1] # "{"
  \/ buf[Len(buf)] # "}"
  \/ \E i \in 2..(Len(buf) - 1) : buf[i] \in {"{", "}"}

\* C10: when the buffered bytes do not parse at the end of a connection, the
\* in-flight command's callback fires with the sentinel error result and the
\* queue advances as after any result
C10_MalformedGivesSentinel ==
  [][\A c \in DOMAIN conn :
       (/\ EndStep(c)
        /\ curCommand # 0
        /\ Malformed(bufferedData))
       => /\ fired' = Append(fired, [cmd |-> curCommand, result |-> UNKNOWN_ERROR])
          /\ QueueAdvances(c)]_vars

\* after a sentinel answer the next command got its regular result
C10_Witness ==
  /\ Len(fired) = 2
  /\ fired[1] = [cmd |-> 1, result |-> UNKNOWN_ERROR]
  /\ fired[2] = [cmd |-> 2, result |-> "ok"]

\* a connection ends with a command result while no command is in flight
UnexpectedResult(c) ==
  /\ EndStep(c)
  /\ curCommand = 0
  /\ bufferedData = <<"{", "ev_cmd", "res_ok", "}">>

\* C11 as claimed: an unexpected result fires no callback and leaves the
\* pending entries and the in-flight entry as they are
C11_UnexpectedResultChangesNothing ==
  [][\A c \in DOMAIN conn :
       UnexpectedResult(c)
       => /\ fired' = fired
          /\ commandQueue' = commandQueue
          /\ curCommand' = curCommand]_vars

\* C11 as amended: an unexpected result fires no callback and is dropped;
\* the queue then advances as after any event: with no pending entry nothing
\* is in flight, otherwise the oldest pending entry is written to the peer
\* and becomes the in-flight entry
C11_UnexpectedResultIsDropped ==
  [][\A c \in DOMAIN conn :
       UnexpectedResult(c)
       => /\ fired' = fired
          /\ QueueAdvances(c)]_vars

\* two commands were enqueued before the first connection, which is about to
\* end with a result nobody waits for
C11_Witness ==
  /\ Len(conn) = 1
  /\ conn[1] = "open"
  /\ bufferedData = <<"{", "ev_cmd", "res_ok", "}">>
  /\ curCommand = 0
  /\ commandQueue = <<1, 2>>
  /\ fired = <<>>

\* the step in which child c exits
ExitStep(c) ==
  /\ child[c] \in Alive
  /\ child'[c] \in Exited

\* C12: every exit of a child after the check-in, with no shutdown call, is
\* reported once to the unexpected-exit callback of the session, with the
\* exit code and the trace directory seen last, and never a second time
C12_UnexpectedExitReported ==
  [][\A c \in DOMAIN child :
       (ExitStep(c) /\ didLaunch /\ hasConnected /\ shutdownTarget = <<>>)
       => /\ exitCalls = <<>>
          /\ \E code \in ExitCodes :
               exitCalls' = <<[cb |-> exitHandler, code |-> code,
                               traceDir |-> traceDir]>>]_vars


\* the session is over: the exit of the child has been cleaned up, or the
\* launch has been reported as failed
Terminal ==
  \/ ~commandHandler
  \/ \E i \in DOMAIN readyCalls : readyCalls[i].err # NoErr

\* C13: when the session is over no command is left pending, and from then
\* on no command is written to the worker and no command callback is
\* invoked, whatever connection ends afterwards
C13_NothingAfterTerminal ==
  [][/\ (~Terminal /\ Terminal') => commandQueue' = <<>>
     /\ Terminal => (written' = written /\ fired' = fired)]_vars


\* the children that run and have not been sent a kill signal
LiveChildren == {c \in DOMAIN child : child[c] \in {"running", "term"}}

\* C14: a session never has two live children
C14_OneLiveChild == Cardinality(LiveChildren) <= 1


\* a step in which the exit callback or a shutdown callback is invoked
ExitReported ==
  \/ Len(exitCalls') > Len(exitCalls)
  \/ Len(downCalls') > Len(downCalls)

\* C15: when the exit callback or the shutdown callback is invoked, no
\* termination timer is armed any more, the child handle is released, and the
\* command in flight and the dispatch hook are discarded
C15_CleanBeforeCallback ==
  [][ExitReported => /\ termArmed' = {}
                     /\ proc' = 0
                     /\ curCommand' = 0
                     /\ onReceiveCommand' = 0]_vars


\* a step in which a startup timer fires
StartupFires == startupFired' # startupFired

\* a step in which a termination timer fires: a timer disappears, and not
\* because the exit of a child clears it
TermFires ==
  /\ termArmed' # termArmed
  /\ termArmed' \subseteq termArmed
  /\ \A c \in DOMAIN child : ~ExitStep(c)

\* a child has exited and no child is left running
ChildGone ==
  /\ \E c \in DOMAIN child : child[c] \in Exited
  /\ \A c \in DOMAIN child : child[c] \notin Alive

\* C16: no startup timer fires once the worker has checked in, and no
\* termination timer fires once the child has exited
C16_NoStaleTimer ==
  [][/\ StartupFires => ~didLaunch
     /\ TermFires => ~ChildGone]_vars


\* the step in which child c exits and the exit counts as never checked in or
\* as a crash on startup
StartupExitStep(c) ==
  /\ ExitStep(c)
  /\ neverConnected \/ (~didLaunch /\ ~ignoreStartupExit)

\* the step in which the lookup of the instruments binary fails, or the spawn
\* of child c fails for a missing executable
ResolutionFails ==
  /\ \E s \in pendingPath : s \notin pendingPath'
  /\ socketServer' = socketServer
  /\ pendingListen' = pendingListen
SpawnFails(c) == child[c] = "enoent" /\ child'[c] = "failed"

\* the launch callback is invoked in this step, with an error that is neither
\* of the two retried ones
FatalReported ==
  /\ Len(readyCalls') = Len(readyCalls) + 1
  /\ readyCalls'[Len(readyCalls')].err
       \notin {NoErr, ERR_NEVER_CHECKED_IN, ERR_CRASHED_ON_STARTUP}

\* C17: the retry count grows by one, below the budget, and only on an exit
\* that counts as never checked in or as a startup crash; a child is spawned
\* only by the first launch or by such a retry; a failed lookup or a failed
\* spawn is reported at once, with no further child and the count unchanged
C17_RetryOnlyForFlakeyStartup ==
  [][/\ launchTries' # launchTries =>
          /\ launchTries' = launchTries + 1
          /\ launchTries < flakeyRetries
          /\ \E c \in DOMAIN child : StartupExitStep(c)
     /\ Len(child') > Len(child) =>
          \/ pendingListen' # pendingListen
          \/ launchTries' = launchTries + 1
     /\ (ResolutionFails \/ \E c \in DOMAIN child : SpawnFails(c)) =>
          /\ FatalReported
          /\ launchTries' = launchTries
          /\ Len(child') = Len(child)]_vars

\* C18: after the exit of a child, whatever the exit counts as, no
\* termination timer and no startup timer of an exited child is armed, and
\* the session holds no handle to an exited child
C18_ExitReleasesEverything ==
  [][\A c \in DOMAIN child : ExitStep(c) =>
       /\ termArmed' = {}
       /\ \A t \in startupArmed' : child'[t] \notin Exited
       /\ proc' = 0 \/ child'[proc'] \notin Exited]_vars


\* the launch callback is invoked in this step without an error
SuccessReported ==
  /\ Len(readyCalls') = Len(readyCalls) + 1
  /\ readyCalls'[Len(readyCalls')].err = NoErr

\* C19: a launch whose startup timer has fired is never reported to the
\* launch callback as a success
C19_TimedOutLaunchNeverSucceeds ==
  [][SuccessReported => proc \notin startupFired]_vars


\* C20: once a shutdown call has signalled the child, the session spawns no
\* further child; the exit of that child before the check-in is no startup
\* crash and starts no retry
C20_NoSpawnAfterShutdown ==
  [][(\E k \in DOMAIN shutdownTarget : shutdownTarget[k] # 0) =>
       /\ Len(child') = Len(child)
       /\ launchTries' = launchTries]_vars


RECURSIVE Lines(_)
\* the lines of a text: what stands between its newlines
Lines(s) ==
  IF \A i \in DOMAIN s : s[i] # "nl"
    THEN <<s>>
    ELSE LET i == CHOOSE x \in DOMAIN s :
                     s[x] = "nl" /\ \A y \in 1..(x - 1) : s[y] # "nl"
         IN <<SubSeq(s, 1, i - 1)>> \o Lines(SubSeq(s, i + 1, Len(s)))

\* a line that consists of filler characters only
FillerOnly(l) == l # <<>> /\ \A i \in DOMAIN l : l[i] = "*"

\* a line without the filler characters it starts with
StripLead(l) == SubSeq(l, starRun(l, 1) + 1, Len(l))

IsGenuine(l) == l # <<>>

\* the genuine lines of a text, in order: its lines without their leading
\* filler characters, those left empty dropped
GenuineLines(s) ==
  SelectSeq([i \in DOMAIN Lines(s) |-> StripLead(Lines(s)[i])], IsGenuine)

\* C21: the filtered chunk has no line of filler characters only, and its
\* genuine lines are those of the chunk, in order and still separate
C21_OnlyGenuineLines ==
  clearedOutput.done =>
    /\ \A i \in DOMAIN Lines(clearedOutput.text) :
         ~FillerOnly(Lines(clearedOutput.text)[i])
    /\ GenuineLines(clearedOutput.text) = GenuineLines(rawOutput)

====
